---- MODULE Spec2Model ----
(***************************************************************************)
(* JunctionGUI (src/junctiongui.py): a Tk front end and one worker thread  *)
(* that moves a directory to a new place and leaves an NTFS junction at    *)
(* the old one.  The model has the two threads of the program (the Tk      *)
(* event loop and Worker.run), the two queues between them, and the part   *)
(* of the filesystem the program reads and writes.                         *)
(***************************************************************************)
EXTENDS Naturals, Sequences, FiniteSets

(* Bound: how many times the go button is clicked in one run. *)
MaxClicks == 2

(* Bound: the longest path given to escape_path_for_cmd. *)
MaxPathLen == 3

(* The path strings the directory dialogs can return. *)
Paths == {"a", "b", "c"}

(* File names found inside the directories at start-up: each directory is   *)
(* empty or holds one file of its own, so contents tell directories apart.  *)
ItemOf(p) == "f_" \o p

VARIABLES
    fs,                 \* the filesystem: path -> entry
    link_name,          \* Application.link_name (StringVar)
    dest_name,          \* Application.dest_name (StringVar)
    button_link_name,   \* state of the first "Choose..." button
    button_dest_name,   \* state of the second "Choose..." button
    button_go,          \* state of the go button
    progress_mode,      \* progress bar: "idle", "determinate", "indeterminate"
    task_queue,         \* Application.task_queue: sequence of <<link_name, dest_path>>
    result_queue,       \* Application.result_queue: sequence of outcomes
    stop_thread,        \* Worker.stop_thread (threading.Event)
    wpc,                \* where the worker thread is in Worker.run
    wtask,              \* the worker's locals link_name, dest_path
    werr,               \* the worker's local e (the exception caught)
    gui,                \* the Tk thread: "mainloop", "joining", "destroyed"
    checks,             \* number of check_for_completion callbacks pending in after()
    msg,                \* the last message box shown
    clicks,             \* number of check_and_queue_task calls so far
    accepted,           \* history: every request put on task_queue
    taken,              \* history: every request the worker got from task_queue
    published,          \* history: every outcome the worker put on result_queue
    fs0,                \* history: the filesystem when the worker got its current request
    quit_at,            \* history: whether the worker was processing a request, and how
                        \* many it had taken, when on_quit set the stop flag
    esc_path,           \* the argument of a call of escape_path_for_cmd: a sequence of characters
    esc_result,         \* what that call returned or raised
    tkpc,               \* where the Tk thread is in check_and_queue_task ("idle": in no call)
    in_go,              \* whether that call was made by go_button_clicked
    cfc,                \* where the Tk thread is in check_for_completion ("idle": in no call)
    result,             \* the local result of check_for_completion
    mv,                 \* where the worker is inside shutil.move
    st_link,            \* os.path.samefile's os.stat result for link_name: the entry it
                        \* names, kept as the path where that entry now is ("": none)
    re_bound            \* whether the module's global name re is bound

vars == <<fs, link_name, dest_name, button_link_name, button_dest_name, button_go,
          progress_mode, task_queue, result_queue, stop_thread, wpc, wtask, werr,
          gui, checks, msg, clicks, accepted, taken, published, fs0, quit_at,
          esc_path, esc_result, tkpc, in_go, cfc, result, mv, st_link, re_bound>>

guiVars == <<link_name, dest_name, button_link_name, button_dest_name, button_go,
             progress_mode, gui, checks, msg, clicks, accepted, quit_at, esc_path,
             esc_result, tkpc, in_go, cfc, result>>

workerVars == <<wpc, wtask, werr, taken, published, fs0, mv>>

-----------------------------------------------------------------------------
(* The filesystem.  An entry is absent, a regular file, a directory (with   *)
(* the names it holds and whether it may be listed) or a junction to        *)
(* another path.                                                            *)

Absent == [kind |-> "absent", contents |-> {}, readable |-> TRUE, target |-> ""]
File == [kind |-> "file", contents |-> {}, readable |-> TRUE, target |-> ""]
Dir(c, r) == [kind |-> "dir", contents |-> c, readable |-> r, target |-> ""]
Junction(t) == [kind |-> "junction", contents |-> {}, readable |-> TRUE, target |-> t]

(* The path of the entry that path p names once junctions are followed, or  *)
(* "" when there is none (absent, dangling, or too many levels).            *)
RECURSIVE ResolveN(_, _, _)
ResolveN(f, p, n) ==
    IF p \notin Paths THEN ""
    ELSE IF f[p].kind = "absent" THEN ""
    ELSE IF f[p].kind = "junction"
         THEN IF n = 0 THEN "" ELSE ResolveN(f, f[p].target, n - 1)
    ELSE p

Resolve(f, p) == ResolveN(f, p, Cardinality(Paths))

(* os.path.exists, os.path.isdir: follow junctions, never raise *)
path_exists(f, p) == Resolve(f, p) # ""
path_isdir(f, p) == Resolve(f, p) # "" /\ f[Resolve(f, p)].kind = "dir"

(* os.stat: follows junctions and raises OSError when nothing is there;    *)
(* what it returns identifies the entry, here by the path the entry is at   *)
stat_raises(f, p) == Resolve(f, p) = ""
os_stat(f, p) == Resolve(f, p)

(* os.path.samestat: the two stat results are of one entry *)
samestat(s1, s2) == s1 = s2

(* os.path.samefile when nothing changes between its two os.stat calls, as *)
(* in shutil.move, the worker being the only thread that writes            *)
samefile_raises(f, p, q) == stat_raises(f, p) \/ stat_raises(f, q)
samefile(f, p, q) == samestat(os_stat(f, p), os_stat(f, q))

(* A stat result held while the worker goes on: the entry it identifies    *)
(* keeps its identity when os.rename moves it to another path, is at no     *)
(* path any more once it is moved into another directory ("inside"), and    *)
(* exists no more once it is removed or replaced ("gone").  The number of   *)
(* an entry that exists no more is free: whether the next entry made gets   *)
(* it is the filesystem's choice, and when it does the stat result held     *)
(* identifies the new entry.                                                *)
stat_after_rename(st, src, dst) ==
    IF st = "" THEN ""
    ELSE IF st = src THEN dst
    ELSE IF st = dst THEN "gone"
    ELSE st

stat_after_remove(st, p) ==
    IF st = "" THEN "" ELSE IF st = p THEN "gone" ELSE st

stat_after_move_into(st, src) ==
    IF st = "" THEN "" ELSE IF st = src THEN "inside" ELSE st

(* the values the stat result can have once an entry is made at path p *)
stat_after_create(st, p) == IF st = "gone" THEN {"gone", p} ELSE {st}

(* os.listdir: raises OSError unless p is a directory that may be listed *)
listdir_raises(f, p) == ~path_isdir(f, p) \/ ~f[Resolve(f, p)].readable
listdir(f, p) == f[Resolve(f, p)].contents

dir_is_empty(f, p) == Cardinality(listdir(f, p)) = 0

-----------------------------------------------------------------------------
(* Application: the Tk thread.  A handler is cut into actions wherever the *)
(* worker can see or change what it works on: check_and_queue_task is one  *)
(* action per filesystem call and one per queue operation, and              *)
(* check_for_completion one for its get_nowait and one for what follows.    *)
(* The error box of check_and_queue_task is modal: the call, and the        *)
(* go_button_clicked that made it, go on only when the box is dismissed.    *)
(* While the Tk thread is inside a callback no other handler runs.          *)

(* the filesystem calls of the sanity checks, lines 260, 263, 264, 268 (the *)
(* two os.stat calls of os.path.samefile) and 271                           *)
CheckSteps == {"isdir_link", "exists_dest", "isdir_dest", "stat_link", "stat_dest",
               "listdir"}

(* the checks with the emptiness test before the same-file test *)
sanity_step_empty_first(f, link, dest, pc, st) ==
    IF pc = "isdir_link"
    THEN (IF ~path_isdir(f, link) THEN "src_not_dir" ELSE "exists_dest")
    ELSE IF pc = "exists_dest"
    THEN (IF path_exists(f, dest) THEN "isdir_dest" ELSE "put")
    ELSE IF pc = "isdir_dest"
    THEN (IF ~path_isdir(f, dest) THEN "dest_not_dir" ELSE "listdir")
    ELSE IF pc = "listdir"
    THEN (IF listdir_raises(f, dest) THEN "os_error"
          ELSE IF ~dir_is_empty(f, dest) THEN "not_empty"
          ELSE "stat_link")
    ELSE IF pc = "stat_link"
    THEN (IF stat_raises(f, link) THEN "os_error" ELSE "stat_dest")
    ELSE (IF stat_raises(f, dest) THEN "os_error"
          ELSE IF samestat(st, os_stat(f, dest)) THEN "same"
          ELSE "put")

(* the checks without the emptiness test *)
sanity_step_no_empty_test(f, link, dest, pc, st) ==
    IF pc = "isdir_link"
    THEN (IF ~path_isdir(f, link) THEN "src_not_dir" ELSE "exists_dest")
    ELSE IF pc = "exists_dest"
    THEN (IF path_exists(f, dest) THEN "isdir_dest" ELSE "put")
    ELSE IF pc = "isdir_dest"
    THEN (IF ~path_isdir(f, dest) THEN "dest_not_dir" ELSE "stat_link")
    ELSE IF pc = "stat_link"
    THEN (IF stat_raises(f, link) THEN "os_error" ELSE "stat_dest")
    ELSE (IF stat_raises(f, dest) THEN "os_error"
          ELSE IF samestat(st, os_stat(f, dest)) THEN "same"
          ELSE "put")

(* the checks comparing the two path strings instead of the entries *)
sanity_step_string_compare(f, link, dest, pc, st) ==
    IF pc = "isdir_link"
    THEN (IF ~path_isdir(f, link) THEN "src_not_dir" ELSE "exists_dest")
    ELSE IF pc = "exists_dest"
    THEN (IF path_exists(f, dest) THEN "isdir_dest" ELSE "put")
    ELSE IF pc = "isdir_dest"
    THEN (IF ~path_isdir(f, dest) THEN "dest_not_dir" ELSE "stat_link")
    ELSE IF pc \in {"stat_link", "stat_dest"}
    THEN (IF link = dest THEN "same" ELSE "listdir")
    ELSE (IF listdir_raises(f, dest) THEN "os_error"
          ELSE IF ~dir_is_empty(f, dest) THEN "not_empty"
          ELSE "put")

(* One filesystem call of the sanity checks (lines 259-279), made at pc on  *)
(* the filesystem f: the call to make next, "put" when the checks are       *)
(* passed, or the message box shown.  os.path.samefile (line 268) is two    *)
(* calls, os.stat(link) and os.stat(dest); st is what the first returned    *)
(* when the second is made.                                                 *)
sanity_step(f, link, dest, pc, st) ==
    IF pc = "isdir_link"
    THEN (IF ~path_isdir(f, link) THEN "src_not_dir" ELSE "exists_dest")
    ELSE IF pc = "exists_dest"
    THEN (IF path_exists(f, dest) THEN "isdir_dest" ELSE "put")
    ELSE IF pc = "isdir_dest"
    THEN (IF ~path_isdir(f, dest) THEN "dest_not_dir" ELSE "stat_link")
    ELSE IF pc = "stat_link"
    THEN (IF stat_raises(f, link) THEN "os_error" ELSE "stat_dest")
    ELSE IF pc = "stat_dest"
    THEN (IF stat_raises(f, dest) THEN "os_error"
          ELSE IF samestat(st, os_stat(f, dest)) THEN "same"
          ELSE "listdir")
    ELSE (IF listdir_raises(f, dest) THEN "os_error"
          ELSE IF ~dir_is_empty(f, dest) THEN "not_empty"
          ELSE "put")

(* the checks from pc on, all made on the one filesystem f *)
RECURSIVE sanity_from(_, _, _, _, _)
sanity_from(f, link, dest, pc, st) ==
    LET r == sanity_step(f, link, dest, pc, st)
    IN  IF r \in CheckSteps
        THEN sanity_from(f, link, dest, r,
                         IF pc = "stat_link" THEN os_stat(f, link) ELSE st)
        ELSE IF r = "put" THEN "ok"
        ELSE r

(* what the sanity checks give when the filesystem stays f throughout: the *)
(* message box shown, or "ok" when the task is queued                       *)
sanity_checks(f, link, dest) == sanity_from(f, link, dest, "isdir_link", "")

set_buttons_state(state) ==
    /\ button_link_name' = state
    /\ button_dest_name' = state
    /\ button_go' = state

(* start_progress leaving the buttons usable *)
start_progress_buttons_on ==
    /\ set_buttons_state("active")
    /\ progress_mode' = "indeterminate"

start_progress ==
    /\ set_buttons_state("disabled")
    /\ progress_mode' = "indeterminate"

stop_progress ==
    /\ set_buttons_state("active")
    /\ progress_mode' = "determinate"

(* after(100, check_for_completion): one more callback pending *)
schedule_completion_check == checks' = checks + 1

(* the go button enabled as soon as either path is chosen *)
maybe_enable_go_button_either(link, dest) ==
    button_go' = IF link # "" \/ dest # "" THEN "active" ELSE button_go

(* maybe_enable_go_button, given the values the two StringVars then have *)
maybe_enable_go_button(link, dest) ==
    button_go' = IF link # "" /\ dest # "" THEN "active" ELSE button_go

(* choose_dir for the first button: the dialog returns a path, or "" when   *)
(* it is cancelled.  Nothing is assumed of the path returned: the entry it  *)
(* names can change between the dialog and the click, which is what the     *)
(* sanity checks of check_and_queue_task are there for.                     *)
choose_link_name ==
    /\ gui = "mainloop"
    /\ tkpc = "idle"
    /\ cfc = "idle"
    /\ button_link_name # "disabled"
    /\ \E chosen_dir \in Paths \cup {""} :
        /\ link_name' = IF chosen_dir # "" THEN chosen_dir ELSE link_name
        /\ maybe_enable_go_button(link_name', dest_name)
    /\ UNCHANGED <<fs, dest_name, button_link_name, button_dest_name, progress_mode,
                   task_queue, result_queue, stop_thread, gui, checks, msg, clicks,
                   accepted, workerVars, st_link, re_bound, quit_at, cfc, result, esc_path, esc_result, tkpc, in_go>>

(* choose_dir for the second button *)
choose_dest_name ==
    /\ gui = "mainloop"
    /\ tkpc = "idle"
    /\ cfc = "idle"
    /\ button_dest_name # "disabled"
    /\ \E chosen_dir \in Paths \cup {""} :
        /\ dest_name' = IF chosen_dir # "" THEN chosen_dir ELSE dest_name
        /\ maybe_enable_go_button(link_name, dest_name')
    /\ UNCHANGED <<fs, link_name, button_link_name, button_dest_name, progress_mode,
                   task_queue, result_queue, stop_thread, gui, checks, msg, clicks,
                   accepted, workerVars, st_link, re_bound, quit_at, cfc, result, esc_path, esc_result, tkpc, in_go>>

(* go_button_clicked up to the first filesystem call of                    *)
(* check_and_queue_task: start_progress (line 250), then the two StringVars *)
(* are read (lines 255-256)                                                 *)
go_button_clicked ==
    /\ gui = "mainloop"
    /\ tkpc = "idle"
    /\ cfc = "idle"
    /\ button_go # "disabled"
    /\ clicks < MaxClicks
    /\ clicks' = clicks + 1
    /\ start_progress
    /\ tkpc' = "isdir_link"
    /\ in_go' = TRUE
    /\ UNCHANGED <<fs, link_name, dest_name, task_queue, result_queue, stop_thread,
                   gui, checks, msg, accepted, workerVars, st_link, re_bound, quit_at, cfc, result, esc_path,
                   esc_result>>

(* one filesystem call of the sanity checks; a check that fails, or raises *)
(* OSError, opens the modal error box                                       *)
sanity_check_step ==
    /\ gui = "mainloop"
    /\ tkpc \in CheckSteps
    /\ LET r == sanity_step(fs, link_name, dest_name, tkpc, st_link)
       IN  /\ IF r \in CheckSteps \cup {"put"}
              THEN tkpc' = r /\ UNCHANGED msg
              ELSE tkpc' = "dialog" /\ msg' = r
           /\ st_link' = IF tkpc = "stat_link" /\ r = "stat_dest"
                          THEN os_stat(fs, link_name) ELSE ""
    /\ UNCHANGED <<fs, link_name, dest_name, button_link_name, button_dest_name,
                   button_go, progress_mode, task_queue, result_queue, stop_thread,
                   gui, checks, clicks, accepted, workerVars, re_bound, quit_at, cfc,
                   result, esc_path, esc_result, in_go>>

(* line 282: the checks passed and the task is put on the queue; the      *)
(* put releases the queue's lock, so the worker can take the task before   *)
(* the call goes on                                                         *)
put_task ==
    /\ gui = "mainloop"
    /\ tkpc = "put"
    /\ task_queue' = Append(task_queue, <<link_name, dest_name>>)
    /\ accepted' = Append(accepted, <<link_name, dest_name>>)
    /\ tkpc' = "schedule"
    /\ UNCHANGED <<fs, link_name, dest_name, button_link_name, button_dest_name,
                   button_go, progress_mode, result_queue, stop_thread, gui, checks,
                   msg, clicks, workerVars, st_link, re_bound, quit_at, cfc, result, esc_path,
                   esc_result, in_go>>

(* lines 285-286: the first completion check is scheduled and the call     *)
(* returns True (go_button_clicked then leaves the progress state on)       *)
schedule_first_check ==
    /\ gui = "mainloop"
    /\ tkpc = "schedule"
    /\ schedule_completion_check
    /\ msg' = "ok"
    /\ tkpc' = "idle"
    /\ in_go' = FALSE
    /\ UNCHANGED <<fs, link_name, dest_name, button_link_name, button_dest_name,
                   button_go, progress_mode, task_queue, result_queue, stop_thread,
                   gui, clicks, accepted, workerVars, st_link, re_bound, quit_at, cfc, result,
                   esc_path, esc_result>>

(* the error box dismissed, with the stop_progress of line 252 left out *)
dismiss_error_progress_left_on ==
    /\ gui = "mainloop"
    /\ tkpc = "dialog"
    /\ cfc = "idle"
    /\ tkpc' = "idle"
    /\ in_go' = FALSE
    /\ UNCHANGED <<fs, link_name, dest_name, button_link_name, button_dest_name,
                   button_go, progress_mode, task_queue, result_queue, stop_thread,
                   gui, checks, msg, clicks, accepted, workerVars, st_link, re_bound, quit_at, cfc, result, esc_path,
                   esc_result>>

(* the user dismisses the error box: check_and_queue_task returns False    *)
(* with nothing queued, and go_button_clicked, when it made the call, calls *)
(* stop_progress (line 252)                                                 *)
dismiss_error ==
    /\ gui = "mainloop"
    /\ tkpc = "dialog"
    /\ cfc = "idle"
    /\ IF in_go
       THEN stop_progress
       ELSE UNCHANGED <<button_link_name, button_dest_name, button_go, progress_mode>>
    /\ tkpc' = "idle"
    /\ in_go' = FALSE
    /\ UNCHANGED <<fs, link_name, dest_name, task_queue, result_queue, stop_thread,
                   gui, checks, msg, clicks, accepted, workerVars, st_link, re_bound, quit_at, cfc, result, esc_path,
                   esc_result>>

(* check_for_completion, run by the event loop when an after() callback is  *)
(* due, which is in mainloop or while the error box is open (the box runs   *)
(* the event loop), up to its get_nowait on the result queue (line 227),    *)
(* which takes the oldest outcome or raises queue.Empty.  get_nowait        *)
(* releases the queue's lock: the worker runs on before the callback does   *)
(* anything else.                                                           *)
check_for_completion ==
    /\ gui = "mainloop"
    /\ tkpc \in {"idle", "dialog"}
    /\ cfc = "idle"
    /\ checks > 0
    /\ checks' = checks - 1
    /\ IF Len(result_queue) = 0
       THEN /\ cfc' = "empty"
            /\ UNCHANGED <<result_queue, result>>
       ELSE /\ cfc' = "got"
            /\ result' = Head(result_queue)
            /\ result_queue' = Tail(result_queue)
    /\ UNCHANGED <<fs, link_name, dest_name, button_link_name, button_dest_name,
                   button_go, progress_mode, task_queue, stop_thread, gui, msg,
                   clicks, accepted, workerVars, st_link, re_bound, quit_at, esc_path, esc_result,
                   tkpc, in_go>>

(* the except clause returning without schedule_completion_check *)
check_for_completion_empty_no_reschedule ==
    /\ gui = "mainloop"
    /\ cfc = "empty"
    /\ cfc' = "idle"
    /\ UNCHANGED <<fs, link_name, dest_name, button_link_name, button_dest_name,
                   button_go, progress_mode, task_queue, result_queue, stop_thread,
                   gui, checks, msg, clicks, accepted, workerVars, st_link, re_bound, quit_at, result,
                   esc_path, esc_result, tkpc, in_go>>

(* lines 228-234: the queue was empty; check again later, return *)
check_for_completion_empty ==
    /\ gui = "mainloop"
    /\ cfc = "empty"
    /\ schedule_completion_check
    /\ cfc' = "idle"
    /\ UNCHANGED <<fs, link_name, dest_name, button_link_name, button_dest_name,
                   button_go, progress_mode, task_queue, result_queue, stop_thread,
                   gui, msg, clicks, accepted, workerVars, st_link, re_bound, quit_at, result,
                   esc_path, esc_result, tkpc, in_go>>

(* the callback scheduling another check after it got an outcome *)
check_for_completion_result_reschedules ==
    /\ gui = "mainloop"
    /\ cfc = "got"
    /\ schedule_completion_check
    /\ stop_progress
    /\ msg' = IF result[1] = "True" THEN "completed" ELSE "failed"
    /\ cfc' = "idle"
    /\ result' = <<>>
    /\ UNCHANGED <<fs, link_name, dest_name, task_queue, result_queue, stop_thread,
                   gui, clicks, accepted, workerVars, st_link, re_bound, quit_at, esc_path,
                   esc_result, tkpc, in_go>>

(* lines 236-247: an outcome was taken; stop_progress, then the box that    *)
(* tells the user of the success or the failure.  Nothing follows the box   *)
(* in the callback, so its dismissal changes nothing.                       *)
check_for_completion_result ==
    /\ gui = "mainloop"
    /\ cfc = "got"
    /\ stop_progress
    /\ msg' = IF result[1] = "True" THEN "completed" ELSE "failed"
    /\ cfc' = "idle"
    /\ result' = <<>>
    /\ UNCHANGED <<fs, link_name, dest_name, task_queue, result_queue, stop_thread,
                   gui, checks, clicks, accepted, workerVars, st_link, re_bound, quit_at, esc_path,
                   esc_result, tkpc, in_go>>

(* on_quit joining without having set the stop flag *)
on_quit_flag_not_set ==
    /\ gui = "mainloop"
    /\ tkpc = "idle"
    /\ cfc = "idle"
    /\ gui' = "joining"
    /\ quit_at' = [running |-> wpc \in {"clear", "move", "link", "except", "success"},
                    ntaken |-> Len(taken)]
    /\ UNCHANGED <<fs, link_name, dest_name, button_link_name, button_dest_name,
                   button_go, progress_mode, task_queue, result_queue, stop_thread,
                   checks, msg, clicks, accepted, workerVars, st_link, re_bound, cfc, result, esc_path, esc_result, tkpc, in_go>>

(* on_quit up to the join: the stop flag is set and the Tk thread blocks.   *)
(* The error box holds the grab, so the window is not closed while it is    *)
(* open.                                                                    *)
on_quit ==
    /\ gui = "mainloop"
    /\ tkpc = "idle"
    /\ cfc = "idle"
    /\ stop_thread' = TRUE
    /\ gui' = "joining"
    /\ quit_at' = [running |-> wpc \in {"clear", "move", "link", "except", "success"},
                    ntaken |-> Len(taken)]
    /\ UNCHANGED <<fs, link_name, dest_name, button_link_name, button_dest_name,
                   button_go, progress_mode, task_queue, result_queue, checks, msg,
                   clicks, accepted, workerVars, st_link, re_bound, cfc, result, esc_path, esc_result, tkpc, in_go>>

(* on_quit after the join: worker.join() returns once run() has returned,   *)
(* then the root window is destroyed and mainloop ends                      *)
on_quit_joined ==
    /\ gui = "joining"
    /\ wpc = "exited"
    /\ gui' = "destroyed"
    /\ UNCHANGED <<fs, link_name, dest_name, button_link_name, button_dest_name,
                   button_go, progress_mode, task_queue, result_queue, stop_thread,
                   checks, msg, clicks, accepted, workerVars, st_link, re_bound, quit_at, cfc, result, esc_path, esc_result, tkpc, in_go>>

-----------------------------------------------------------------------------
(* The filesystem calls of the worker.  Each can also fail for a reason     *)
(* outside the model (access denied, directory in use, mklink refusing the  *)
(* volume): the actions below choose os_error freely.  os.rmdir and mklink  *)
(* leave the filesystem as it was when they fail; shutil.move is several    *)
(* filesystem operations when it has to copy, and can raise between them.   *)

(* os.rmdir(p): removes an empty directory, or a junction itself (its       *)
(* target is left alone); raises on anything else                           *)
rmdir_raises(f, p) ==
    \/ p \notin Paths
    \/ f[p].kind \notin {"dir", "junction"}
    \/ f[p].kind = "dir" /\ f[p].contents # {}

rmdir(f, p) == [f EXCEPT ![p] = Absent]

(* shutil.move(src, dst), when its os.rename works.                         *)
(*  - src and dst are one path string: os.rename does nothing;              *)
(*  - dst names a directory that is src itself under another name:          *)
(*    os.rename(src, dst), which raises;                                    *)
(*  - dst names another directory: src is moved into it under its own name, *)
(*    which must be free there;                                             *)
(*  - otherwise os.rename(src, dst), which moves the entry itself (a        *)
(*    junction stays a junction) and raises when something is already at    *)
(*    dst; the copy that shutil.move then falls back to succeeds only for   *)
(*    a file replacing a file.                                              *)
(* A missing src raises in every case.                                      *)
move_same(f, src, dst) ==
    path_isdir(f, dst) /\ path_exists(f, src) /\ samefile(f, src, dst)

move_into(f, src, dst) == path_isdir(f, dst) /\ ~move_same(f, src, dst)

move_raises(f, src, dst) ==
    \/ src \notin Paths \/ dst \notin Paths
    \/ f[src].kind = "absent"
    \/ /\ src # dst
       /\ IF move_same(f, src, dst) THEN TRUE
          ELSE IF move_into(f, src, dst) THEN src \in listdir(f, dst)
          ELSE f[dst].kind # "absent" /\ ~(f[src].kind = "file" /\ f[dst].kind = "file")

(* When os.rename fails because src and dst are on different volumes,      *)
(* shutil.move copies and then deletes: a directory (or a junction to one,  *)
(* copied as the directory it names) with copytree and rmtree, a file with  *)
(* copy2 and unlink.  copytree lists src before it creates anything, so a   *)
(* source that cannot be listed is not copied.                              *)
move_can_copy(f, src, dst) ==
    /\ ~move_raises(f, src, dst)
    /\ src # dst
    /\ \/ f[src].kind = "file"
       \/ path_isdir(f, src) /\ ~listdir_raises(f, src)

(* the first operation of the copy: the directory made at the destination  *)
(* (inside dst, under the name of src, when dst is a directory: the model   *)
(* does not look into that copy), or the file copied                        *)
move_copy_start(f, src, dst) ==
    IF move_into(f, src, dst)
    THEN [f EXCEPT ![Resolve(f, dst)].contents = @ \cup {src}]
    ELSE IF f[src].kind = "file" THEN [f EXCEPT ![dst] = File]
    ELSE [f EXCEPT ![dst] = Dir({}, TRUE)]

(* what shutil.move does after that operation: unlink the file, go on       *)
(* copying, or, with nothing left to copy, remove the source                *)
move_copy_next(f, src, dst) ==
    IF f[src].kind = "file" THEN "unlink"
    ELSE IF move_into(f, src, dst) \/ listdir(f, src) = {} THEN "rmtree"
    ELSE "copytree"

(* a stat result held while os.rename moves src: the entry moved is at dst *)
(* afterwards, or inside the directory dst names                            *)
move_stat(st, f, src, dst) ==
    IF move_same(f, src, dst) THEN st
    ELSE IF move_into(f, src, dst) THEN stat_after_move_into(st, src)
    ELSE stat_after_rename(st, src, dst)

(* a stat result held while shutil.move starts to copy: os.makedirs or      *)
(* copy2 makes a new entry at dst, unless the copy goes inside the          *)
(* directory dst names or onto a file that is there                         *)
move_copy_stat(st, f, src, dst) ==
    IF move_into(f, src, dst) \/ f[dst].kind # "absent" THEN {st}
    ELSE stat_after_create(st, dst)

(* a copy: the source is left where it was *)
move_keeps_source(f, src, dst) ==
    IF move_same(f, src, dst) THEN f
    ELSE IF move_into(f, src, dst)
    THEN [f EXCEPT ![Resolve(f, dst)].contents = @ \cup {src}]
    ELSE [f EXCEPT ![dst] = f[src]]

move(f, src, dst) ==
    IF move_same(f, src, dst) THEN f
    ELSE IF move_into(f, src, dst)
    THEN [f EXCEPT ![src] = Absent,
                   ![Resolve(f, dst)].contents = @ \cup {src}]
    ELSE [f EXCEPT ![src] = Absent, ![dst] = f[src]]

(* mklink /j link target, run through cmd.exe: creates the junction unless  *)
(* something is already at link                                             *)
mklink_raises(f, link, target) ==
    \/ link \notin Paths
    \/ f[link].kind # "absent"

mklink(f, link, target) == [f EXCEPT ![link] = Junction(target)]

-----------------------------------------------------------------------------
(* Worker.run: one action per blocking call of the loop body, and one per   *)
(* filesystem operation of a move that copies and deletes.                  *)

(* a loop that never tests the flag *)
run_loop_ignores_stop ==
    /\ wpc = "loop"
    /\ wpc' = "get"
    /\ UNCHANGED <<fs, task_queue, result_queue, stop_thread, wtask, werr, taken,
                   published, fs0, mv, guiVars, st_link, re_bound>>

(* line 62: the loop test *)
run_loop ==
    /\ wpc = "loop"
    /\ wpc' = IF stop_thread THEN "exited" ELSE "get"
    /\ UNCHANGED <<fs, task_queue, result_queue, stop_thread, wtask, werr, taken,
                   published, fs0, mv, guiVars, st_link, re_bound>>

(* lines 64-67: task_queue.get(timeout=0.1) returns the oldest task, or     *)
(* raises queue.Empty when the queue stayed empty                           *)
run_get_lifo ==
    /\ wpc = "get"
    /\ IF Len(task_queue) > 0
       THEN /\ wtask' = task_queue[Len(task_queue)]
            /\ task_queue' = SubSeq(task_queue, 1, Len(task_queue) - 1)
            /\ taken' = Append(taken, task_queue[Len(task_queue)])
            /\ fs0' = fs
            /\ wpc' = "clear"
       ELSE /\ wpc' = "loop"
            /\ UNCHANGED <<wtask, task_queue, taken, fs0>>
    /\ UNCHANGED <<fs, result_queue, stop_thread, werr, published, mv, guiVars, st_link, re_bound>>

run_get ==
    /\ wpc = "get"
    /\ IF Len(task_queue) > 0
       THEN /\ wtask' = Head(task_queue)
            /\ task_queue' = Tail(task_queue)
            /\ taken' = Append(taken, Head(task_queue))
            /\ fs0' = fs
            /\ wpc' = "clear"
       ELSE /\ wpc' = "loop"
            /\ UNCHANGED <<wtask, task_queue, taken, fs0>>
    /\ UNCHANGED <<fs, result_queue, stop_thread, werr, published, mv, guiVars, st_link, re_bound>>

(* the except clause without its continue: falls through to line 91 *)
after_except_falls_through == "success"

(* the except clause ending the thread *)
after_except_exits == "exited"

(* where the loop goes after the except clause has put its result: the     *)
(* continue of line 88                                                      *)
after_except == "loop"

(* lines 71-72: if the dest path exists, remove it *)
run_clear ==
    /\ wpc = "clear"
    /\ \E os_error \in BOOLEAN :
        IF path_exists(fs, wtask[2])
        THEN IF os_error \/ rmdir_raises(fs, wtask[2])
             THEN /\ werr' = "rmdir_error"
                  /\ wpc' = "except"
                  /\ UNCHANGED <<fs, st_link>>
             ELSE /\ fs' = rmdir(fs, wtask[2])
                  /\ st_link' = stat_after_remove(st_link, wtask[2])
                  /\ wpc' = "move"
                  /\ UNCHANGED werr
        ELSE /\ wpc' = "move"
             /\ UNCHANGED <<fs, werr, st_link>>
    /\ UNCHANGED <<task_queue, result_queue, stop_thread, wtask, taken, published,
                   fs0, mv, guiVars, re_bound>>

(* a move step that gives up when the stop flag is set *)
run_move_cancellable ==
    /\ wpc = "move"
    /\ mv = "start"
    /\ \E os_error \in BOOLEAN, copies \in BOOLEAN :
        IF stop_thread
        THEN /\ wpc' = "exited"
             /\ UNCHANGED <<fs, werr, mv, st_link>>
        ELSE IF ~os_error /\ ~move_raises(fs, wtask[1], wtask[2])
        THEN /\ fs' = move(fs, wtask[1], wtask[2])
             /\ st_link' = move_stat(st_link, fs, wtask[1], wtask[2])
             /\ wpc' = "link"
             /\ UNCHANGED <<werr, mv>>
        ELSE IF os_error /\ copies /\ move_can_copy(fs, wtask[1], wtask[2])
        THEN /\ fs' = move_copy_start(fs, wtask[1], wtask[2])
             /\ mv' = move_copy_next(fs, wtask[1], wtask[2])
             /\ st_link' \in move_copy_stat(st_link, fs, wtask[1], wtask[2])
             /\ UNCHANGED <<wpc, werr>>
        ELSE /\ werr' = "move_error"
             /\ wpc' = "except"
             /\ UNCHANGED <<fs, mv, st_link>>
    /\ UNCHANGED <<task_queue, result_queue, stop_thread, wtask, taken, published,
                   fs0, guiVars, re_bound>>

(* line 75: now move the directory contents.  shutil.move tries os.rename:  *)
(* the entry is moved in one operation, or os.rename raises and shutil.move *)
(* either raises in turn or starts to copy.                                 *)
run_move ==
    /\ wpc = "move"
    /\ mv = "start"
    /\ \E os_error \in BOOLEAN, copies \in BOOLEAN :
        IF ~os_error /\ ~move_raises(fs, wtask[1], wtask[2])
        THEN /\ fs' = move(fs, wtask[1], wtask[2])
             /\ st_link' = move_stat(st_link, fs, wtask[1], wtask[2])
             /\ wpc' = "link"
             /\ UNCHANGED <<werr, mv>>
        ELSE IF os_error /\ copies /\ move_can_copy(fs, wtask[1], wtask[2])
        THEN /\ fs' = move_copy_start(fs, wtask[1], wtask[2])
             /\ mv' = move_copy_next(fs, wtask[1], wtask[2])
             /\ st_link' \in move_copy_stat(st_link, fs, wtask[1], wtask[2])
             /\ UNCHANGED <<wpc, werr>>
        ELSE /\ werr' = "move_error"
             /\ wpc' = "except"
             /\ UNCHANGED <<fs, mv, st_link>>
    /\ UNCHANGED <<task_queue, result_queue, stop_thread, wtask, taken, published,
                   fs0, guiVars, re_bound>>

(* line 75, inside shutil.move: copytree copies one more entry of src to    *)
(* dst, or the copy raises with what it has copied left at dst              *)
run_move_copy ==
    /\ wpc = "move"
    /\ mv = "copytree"
    /\ \/ \E x \in listdir(fs, wtask[1]) \ fs[wtask[2]].contents :
            /\ fs' = [fs EXCEPT ![wtask[2]].contents = @ \cup {x}]
            /\ mv' = IF listdir(fs, wtask[1]) \subseteq fs'[wtask[2]].contents
                      THEN "rmtree" ELSE "copytree"
            /\ UNCHANGED <<wpc, werr>>
       \/ /\ werr' = "move_error"
          /\ wpc' = "except"
          /\ mv' = "start"
          /\ UNCHANGED fs
    /\ UNCHANGED <<task_queue, result_queue, stop_thread, wtask, taken, published,
                   fs0, guiVars, st_link, re_bound>>

(* line 75, inside shutil.move after the copy: rmtree removes one more      *)
(* entry of src, or src itself once it is empty (a file is unlinked), and   *)
(* shutil.move returns; or the removal raises, which it always does for a   *)
(* junction                                                                 *)
run_move_remove ==
    /\ wpc = "move"
    /\ mv \in {"rmtree", "unlink"}
    /\ \/ /\ fs[wtask[1]].kind = "dir"
          /\ \E x \in fs[wtask[1]].contents :
                fs' = [fs EXCEPT ![wtask[1]].contents = @ \ {x}]
          /\ UNCHANGED <<wpc, werr, mv, st_link>>
       \/ /\ \/ fs[wtask[1]].kind = "dir" /\ fs[wtask[1]].contents = {}
             \/ fs[wtask[1]].kind = "file"
          /\ fs' = [fs EXCEPT ![wtask[1]] = Absent]
          /\ st_link' = stat_after_remove(st_link, wtask[1])
          /\ wpc' = "link"
          /\ mv' = "start"
          /\ UNCHANGED werr
       \/ /\ werr' = "move_error"
          /\ wpc' = "except"
          /\ mv' = "start"
          /\ UNCHANGED <<fs, st_link>>
    /\ UNCHANGED <<task_queue, result_queue, stop_thread, wtask, taken, published,
                   fs0, guiVars, re_bound>>

(* the link command run with its exit status ignored *)
run_link_unchecked ==
    /\ wpc = "link"
    /\ \E os_error \in BOOLEAN :
        IF ~re_bound
        THEN /\ werr' = "NameError"
             /\ wpc' = "except"
             /\ UNCHANGED fs
        ELSE IF os_error \/ mklink_raises(fs, wtask[1], wtask[2])
        THEN /\ wpc' = "success"
             /\ UNCHANGED <<fs, werr>>
        ELSE /\ fs' = mklink(fs, wtask[1], wtask[2])
             /\ wpc' = "success"
             /\ UNCHANGED werr
    /\ UNCHANGED <<task_queue, result_queue, stop_thread, wtask, taken, published,
                   fs0, mv, guiVars, st_link, re_bound>>

(* lines 78-84: finally, create the junction.  The command line is built   *)
(* with escape_path_for_cmd, which raises NameError where the name re is    *)
(* not bound (line 50; the module has no "import re"), and is run by        *)
(* cmd.exe; check_call raises on a non-zero exit status, and whatever is    *)
(* raised while building or running the command is caught by the except     *)
(* clause.                                                                  *)
run_link ==
    /\ wpc = "link"
    /\ \E os_error \in BOOLEAN :
        IF ~re_bound
        THEN /\ werr' = "NameError"
             /\ wpc' = "except"
             /\ UNCHANGED fs
        ELSE IF os_error \/ mklink_raises(fs, wtask[1], wtask[2])
        THEN /\ werr' = "mklink_error"
             /\ wpc' = "except"
             /\ UNCHANGED fs
        ELSE /\ fs' = mklink(fs, wtask[1], wtask[2])
             /\ wpc' = "success"
             /\ UNCHANGED werr
    /\ UNCHANGED <<task_queue, result_queue, stop_thread, wtask, taken, published,
                   fs0, mv, guiVars, st_link, re_bound>>

(* lines 85-88: the except clause puts (e, link_name, dest_path), continue *)
run_except ==
    /\ wpc = "except"
    /\ result_queue' = Append(result_queue, <<werr, wtask[1], wtask[2]>>)
    /\ published' = Append(published, <<werr, wtask[1], wtask[2]>>)
    /\ wpc' = after_except
    /\ UNCHANGED <<fs, task_queue, stop_thread, wtask, werr, taken, fs0, mv, guiVars, st_link, re_bound>>

(* line 91 putting nothing *)
run_success_silent ==
    /\ wpc = "success"
    /\ wpc' = "loop"
    /\ UNCHANGED <<fs, task_queue, result_queue, published, stop_thread, wtask, werr,
                   taken, fs0, mv, guiVars, st_link, re_bound>>

(* line 91: success, put (True, link_name, dest_path) *)
run_success ==
    /\ wpc = "success"
    /\ result_queue' = Append(result_queue, <<"True", wtask[1], wtask[2]>>)
    /\ published' = Append(published, <<"True", wtask[1], wtask[2]>>)
    /\ wpc' = "loop"
    /\ UNCHANGED <<fs, task_queue, stop_thread, wtask, werr, taken, fs0, mv, guiVars, st_link, re_bound>>

-----------------------------------------------------------------------------
(* The filesystem the program is started on: the first two paths are each  *)
(* absent, a file, a directory (empty, or holding its own file and then    *)
(* listable or not) or a junction to the next path; the third is absent or *)
(* a junction to the first.                                                 *)
NextPath(p) == IF p = "a" THEN "b" ELSE IF p = "b" THEN "c" ELSE "a"

InitEntries(p) ==
    IF p = "c"
    THEN {Absent, Junction(NextPath(p))}
    ELSE {Absent, File, Dir({}, TRUE), Dir({ItemOf(p)}, TRUE),
          Dir({ItemOf(p)}, FALSE), Junction(NextPath(p))}

(* a junction's target is a directory, another junction, or missing *)
InitFs == {f \in [Paths -> UNION {InitEntries(p) : p \in Paths}] :
              \A p \in Paths :
                  /\ f[p] \in InitEntries(p)
                  /\ f[p].kind = "junction" => f[f[p].target].kind # "file"}

(* Application.__init__ and create_widgets: empty StringVars and queues,   *)
(* the worker started, the go button disabled                               *)
Init ==
    /\ fs \in InitFs
    /\ link_name = ""
    /\ dest_name = ""
    /\ button_link_name = "normal"
    /\ button_dest_name = "normal"
    /\ button_go = "disabled"
    /\ progress_mode = "idle"
    /\ task_queue = <<>>
    /\ result_queue = <<>>
    /\ stop_thread = FALSE
    /\ wpc = "loop"
    /\ wtask = <<"", "">>
    /\ werr = ""
    /\ gui = "mainloop"
    /\ checks = 0
    /\ msg = ""
    /\ clicks = 0
    /\ accepted = <<>>
    /\ taken = <<>>
    /\ published = <<>>
    /\ fs0 = fs
    /\ quit_at = [running |-> FALSE, ntaken |-> 0]
    /\ esc_path = <<>>
    /\ esc_result = <<"none">>
    /\ tkpc = "idle"
    /\ in_go = FALSE
    /\ cfc = "idle"
    /\ result = <<>>
    /\ mv = "start"
    /\ st_link = ""
    /\ re_bound \in BOOLEAN

Next ==
    \/ choose_link_name
    \/ choose_dest_name
    \/ go_button_clicked
    \/ sanity_check_step
    \/ put_task
    \/ schedule_first_check
    \/ dismiss_error
    \/ check_for_completion
    \/ check_for_completion_empty
    \/ check_for_completion_result
    \/ on_quit
    \/ on_quit_joined
    \/ run_loop
    \/ run_get
    \/ run_clear
    \/ run_move
    \/ run_move_copy
    \/ run_move_remove
    \/ run_link
    \/ run_except
    \/ run_success

Spec == Init /\ [][Next]_vars

(* The same program under the scheduling it runs with: the worker thread    *)
(* keeps being scheduled, the Tk thread goes on with the handler it is in   *)
(* and the event loop keeps running due after() callbacks, and join()       *)
(* returns once the worker has returned.  What the user does (choose,       *)
(* click, dismiss a box, quit) is under no obligation.  The start-up       *)
(* filesystem is the one with a directory holding a file at "a" and        *)
(* nothing at "b" and "c".                                                  *)
InitFair ==
    /\ Init
    /\ fs["a"] = Dir({ItemOf("a")}, TRUE)
    /\ fs["b"] = Absent
    /\ fs["c"] = Absent

Fairness ==
    /\ WF_vars(run_loop)
    /\ WF_vars(run_get)
    /\ WF_vars(run_clear)
    /\ WF_vars(run_move)
    /\ WF_vars(run_move_copy)
    /\ WF_vars(run_move_remove)
    /\ WF_vars(run_link)
    /\ WF_vars(run_except)
    /\ WF_vars(run_success)
    /\ WF_vars(sanity_check_step)
    /\ WF_vars(put_task)
    /\ WF_vars(schedule_first_check)
    /\ WF_vars(check_for_completion)
    /\ WF_vars(check_for_completion_empty)
    /\ WF_vars(check_for_completion_result)
    /\ WF_vars(on_quit_joined)

FairSpec == InitFair /\ [][Next]_vars /\ Fairness

-----------------------------------------------------------------------------
(* Vocabulary of the properties.                                            *)

Running == {"clear", "move", "link", "except", "success"}

Errors == {"rmdir_error", "move_error", "mklink_error", "NameError"}

(* what the link step can raise *)
LinkErrors == {"mklink_error", "NameError"}

(* requests waiting, being processed, or with an outcome not yet polled *)
Outstanding ==
    Len(task_queue) + (IF wpc \in Running THEN 1 ELSE 0) + Len(result_queue)

-----------------------------------------------------------------------------
(* C1, as stated: every request put on the task queue eventually has an    *)
(* outcome put on the result queue, also when the stop flag is set while    *)
(* the request is still waiting in the queue.                               *)
C1_EveryAcceptedPublished ==
    \A k \in 1..MaxClicks : (Len(accepted) >= k) ~> (Len(published) >= k)

(* C1, amended: every request put on the task queue eventually has an      *)
(* outcome put on the result queue, unless the stop flag is set while the   *)
(* request is still waiting in the task queue.                              *)
C1_AcceptedPublishedUnlessStopped ==
    \A k \in 1..MaxClicks :
        (Len(accepted) >= k)
            ~> (Len(published) >= k \/ (stop_thread /\ Len(taken) < k))

(* C1 witness: quit was requested and still every accepted request, two of *)
(* them, has its outcome.                                                   *)
C1_Witness ==
    /\ stop_thread
    /\ Len(accepted) = 2
    /\ Len(published) = 2

(* C2: the worker publishes at most one outcome per request it dequeued,   *)
(* the i-th outcome carries the paths of the i-th request dequeued, and it  *)
(* is either True (success) or an error (failure).                          *)
C2_OneOutcomePerRequest ==
    /\ Len(published) <= Len(taken)
    /\ \A i \in 1..Len(published) :
        /\ published[i][2] = taken[i][1]
        /\ published[i][3] = taken[i][2]
        /\ published[i][1] \in {"True"} \cup Errors

(* C2 witness: two requests were dequeued, the first failed and the second *)
(* succeeded.                                                               *)
C2_Witness ==
    /\ Len(taken) = 2
    /\ Len(published) = 2
    /\ published[1][1] \in Errors
    /\ published[2][1] = "True"

(* C3: single flight: requests waiting in the task queue, plus the one the *)
(* worker is processing, plus outcomes not yet polled, are at most one.     *)
C3_SingleFlight == Outstanding <= 1

(* C3 witness: a second request is outstanding after the first was polled. *)
C3_Witness ==
    /\ Len(accepted) = 2
    /\ Outstanding = 1
    /\ Len(task_queue) = 1

-----------------------------------------------------------------------------
(* The preconditions of validateAndSubmit, each judged on its own from the *)
(* filesystem: "pass", or the error it gives when it is the one that fails. *)

(* a: the source is an existing directory *)
PreA(f, s, t) == IF path_isdir(f, s) THEN "pass" ELSE "src_not_dir"

(* b: the target, if it exists, is a directory *)
PreB(f, s, t) ==
    IF path_exists(f, t) /\ f[Resolve(f, t)].kind # "dir" THEN "dest_not_dir" ELSE "pass"

(* c: source and target are not the same filesystem entry *)
PreC(f, s, t) ==
    IF path_exists(f, s) /\ path_exists(f, t) /\ Resolve(f, s) = Resolve(f, t)
    THEN "same" ELSE "pass"

(* d: the target, if it exists, is empty; listing it can be refused *)
PreD(f, s, t) ==
    IF ~path_exists(f, t) THEN "pass"
    ELSE IF f[Resolve(f, t)].kind # "dir" \/ ~f[Resolve(f, t)].readable THEN "os_error"
    ELSE IF f[Resolve(f, t)].contents = {} THEN "pass"
    ELSE "not_empty"

DecisionList(f, s, t) == <<PreA(f, s, t), PreB(f, s, t), PreC(f, s, t), PreD(f, s, t)>>

(* the verdict of the first precondition of the list that does not pass *)
FirstFailure(list) ==
    IF \A i \in 1..Len(list) : list[i] = "pass" THEN "ok"
    ELSE list[CHOOSE i \in 1..Len(list) :
                  /\ list[i] # "pass"
                  /\ \A j \in 1..(i - 1) : list[j] = "pass"]

(* the target exists and is not empty *)
TargetNonEmpty(f, t) == path_isdir(f, t) /\ f[Resolve(f, t)].contents # {}

(* both paths name the same existing entry *)
SameEntry(f, s, t) ==
    /\ path_exists(f, s)
    /\ path_exists(f, t)
    /\ Resolve(f, s) = Resolve(f, t)

(* this step is a call of go_button_clicked *)
Clicked == clicks' # clicks

(* this step ends the sanity checks of a call: the error box is shown or   *)
(* the task is put on the queue                                             *)
Decided == tkpc \in CheckSteps \cup {"put"} /\ tkpc' \in {"dialog", "schedule"}

(* what the call has decided: the error shown, or "ok" once the task is put *)
Verdict == IF tkpc = "schedule" THEN "ok" ELSE msg

(* C4: the call's result is that of the decision list a, b, c, d taken in  *)
(* order up to the first failure, and the request is put on the task queue  *)
(* exactly when all four pass.                                              *)
C4_DecisionOrder ==
    [][Decided =>
        /\ Verdict' = FirstFailure(DecisionList(fs, link_name, dest_name))
        /\ IF \A i \in 1..4 : DecisionList(fs, link_name, dest_name)[i] = "pass"
           THEN task_queue' = Append(task_queue, <<link_name, dest_name>>)
           ELSE task_queue' = task_queue]_vars

(* C4 witness: one call was accepted, and a later one was refused by b for *)
(* a target on which d, evaluated, would have raised.                       *)
C4_Witness ==
    /\ clicks = 2
    /\ Len(accepted) = 1
    /\ msg = "dest_not_dir"
    /\ PreD(fs, link_name, dest_name) = "os_error"

(* C5, as stated: whenever the target exists and is not empty, the call    *)
(* returns TargetNotEmpty and nothing is queued.                            *)
C5_NonEmptyTargetAlwaysNotEmpty ==
    [][Decided /\ TargetNonEmpty(fs, dest_name) =>
        Verdict' = "not_empty" /\ task_queue' = task_queue]_vars

(* C5, amended: whenever the target exists and is not empty, nothing is    *)
(* queued and the call returns an error; the error is TargetNotEmpty when   *)
(* the source is a directory, is another entry than the target, and the     *)
(* target can be listed.                                                    *)
C5_NonEmptyTargetRejected ==
    [][Decided /\ TargetNonEmpty(fs, dest_name) =>
        /\ task_queue' = task_queue
        /\ Verdict' # "ok"
        /\ (/\ path_isdir(fs, link_name)
            /\ ~SameEntry(fs, link_name, dest_name)
            /\ ~listdir_raises(fs, dest_name)
            => Verdict' = "not_empty")]_vars

(* C5 witness: a call was refused with TargetNotEmpty for a non-empty      *)
(* target, nothing queued.                                                  *)
C5_Witness ==
    /\ clicks > 0
    /\ msg = "not_empty"
    /\ TargetNonEmpty(fs, dest_name)
    /\ accepted = <<>>

(* C6, as stated: whenever source and target are the same filesystem       *)
(* entry, the call returns SamePath.                                        *)
C6_SameEntryAlwaysSamePath ==
    [][Decided /\ SameEntry(fs, link_name, dest_name) => Verdict' = "same"]_vars

(* C6, amended: whenever source and target are the same existing           *)
(* directory, the call returns SamePath; when they are the same entry and   *)
(* it is not a directory, the call returns NotADirectory for the source.    *)
C6_SameDirectorySamePath ==
    [][Decided /\ SameEntry(fs, link_name, dest_name) =>
        /\ task_queue' = task_queue
        /\ Verdict' = IF path_isdir(fs, link_name) THEN "same" ELSE "src_not_dir"]_vars

(* C6 witness: SamePath returned for two different path strings that name  *)
(* one directory.                                                           *)
C6_Witness ==
    /\ clicks > 0
    /\ msg = "same"
    /\ link_name # dest_name
    /\ SameEntry(fs, link_name, dest_name)

(* C7: a call that ends in an error changes neither queue, nor the         *)
(* filesystem, nor the pending completion checks (there are none, and       *)
(* nothing is outstanding, so no poll returns an outcome for it), neither   *)
(* while its checks run nor while its error box is open; when the box is    *)
(* dismissed the buttons are enabled and the progress bar stopped again;    *)
(* and the same call on what it leaves behind gives the same error.         *)
C7_RejectedCallHasNoEffect ==
    /\ [](tkpc \in CheckSteps \cup {"put", "dialog"} =>
            checks = 0 /\ cfc = "idle" /\ Outstanding = 0)
    /\ [][(tkpc \in CheckSteps \cup {"dialog"}) =>
            /\ task_queue' = task_queue
            /\ result_queue' = result_queue
            /\ accepted' = accepted
            /\ fs' = fs
            /\ checks' = checks
            /\ link_name' = link_name
            /\ dest_name' = dest_name]_vars
    /\ [][tkpc = "dialog" /\ tkpc' = "idle" =>
            /\ msg # "ok"
            /\ msg' = msg
            /\ button_go' = "active"
            /\ button_link_name' = "active"
            /\ button_dest_name' = "active"
            /\ progress_mode' = "determinate"
            /\ sanity_checks(fs', link_name', dest_name') = msg']_vars

(* C7 witness: the same call was made twice and ended in the OS error both *)
(* times.                                                                   *)
C7_Witness ==
    /\ tkpc = "idle"
    /\ clicks = 2
    /\ msg = "os_error"
    /\ accepted = <<>>
    /\ button_go = "active"

-----------------------------------------------------------------------------
(* The worker's latest request: wtask holds its paths and fs0 the          *)
(* filesystem it was dequeued on, from the get until the next get.          *)

(* the latest request ended with outcome res: put, or about to be put *)
Ended(res) ==
    \/ wpc = "success" /\ res = "True"
    \/ wpc = "except" /\ res = werr
    \/ /\ wpc \in {"loop", "get", "exited"}
       /\ Len(taken) > 0
       /\ Len(published) = Len(taken)
       /\ published[Len(published)][1] = res

(* when the latest request was dequeued its source was a directory and     *)
(* nothing existed at its target                                            *)
SourceDirTargetMissing == path_isdir(fs0, wtask[1]) /\ ~path_exists(fs0, wtask[2])

(* the source is a junction to the target, and the target holds what the   *)
(* source held when the request was dequeued                                *)
Relocated ==
    /\ fs[wtask[1]] = Junction(wtask[2])
    /\ path_isdir(fs, wtask[2])
    /\ listdir(fs, wtask[2]) = listdir(fs0, wtask[1])

(* the state the move leaves and the link has not changed: the target      *)
(* holds the moved contents, nothing is at the source                       *)
MovedNotLinked ==
    /\ fs[wtask[1]] = Absent
    /\ path_isdir(fs, wtask[2])
    /\ listdir(fs, wtask[2]) = listdir(fs0, wtask[1])

(* C8, as stated, with the failures that come from the operating system    *)
(* granted (shutil.move raising, the link command exiting non-zero): a      *)
(* request whose source is a directory and whose target does not exist      *)
(* ends in Success, with the source a junction to the target and the        *)
(* target holding the original contents of the source.                      *)
C8_AlwaysRelocated ==
    SourceDirTargetMissing /\ (\E res \in {"True"} \cup Errors : Ended(res))
        => \/ Ended("True") /\ Relocated
           \/ Ended("move_error")
           \/ Ended("mklink_error")

(* C8, where it fails: the name re is not bound, the contents were moved   *)
(* to the target, building the link command raised NameError, and the       *)
(* Failure was put with nothing left at the source.                         *)
C8_Witness ==
    /\ ~re_bound
    /\ SourceDirTargetMissing
    /\ wpc = "loop"
    /\ Ended("NameError")
    /\ MovedNotLinked
    /\ listdir(fs0, wtask[1]) # {}

(* C9: when the link step raises after the move, the outcome is a Failure  *)
(* carrying the link step's error, the filesystem is as the move left it    *)
(* (contents at the target, nothing at the source, no junction), and the    *)
(* worker changes nothing more for that request.                            *)
C9_NoRollback ==
    /\ [](\A e \in LinkErrors : Ended(e) => MovedNotLinked)
    /\ [][wpc = "link" /\ wpc' = "except" => fs' = fs /\ werr' \in LinkErrors]_vars
    /\ [][wpc = "except" /\ wpc' # wpc =>
            /\ fs' = fs
            /\ wpc' = "loop"
            /\ result_queue' = Append(result_queue, <<werr, wtask[1], wtask[2]>>)]_vars
    /\ [][fs' # fs => wpc \in {"clear", "move", "link"} /\ Len(taken') = Len(taken)]_vars

(* C9 witness: the Failure of a link step was put, with moved contents at  *)
(* the target.                                                              *)
C9_Witness ==
    /\ wpc = "loop"
    /\ Ended("mklink_error")
    /\ listdir(fs, wtask[2]) # {}
    /\ Len(result_queue) = 1

(* C10: the except clause puts the Failure and the loop goes on; every     *)
(* outcome belongs to the request of the same rank; and a request accepted  *)
(* after a failed one gets its outcome too, unless the stop flag is set     *)
(* while it waits in the task queue.                                        *)
C10_FailureDoesNotStopWorker ==
    /\ [][wpc = "except" /\ wpc' # wpc =>
            /\ werr \in Errors
            /\ wpc' = "loop"
            /\ published' = Append(published, <<werr, wtask[1], wtask[2]>>)
            /\ result_queue' = Append(result_queue, <<werr, wtask[1], wtask[2]>>)]_vars
    /\ [](\A i \in 1..Len(published) :
            published[i][2] = accepted[i][1] /\ published[i][3] = accepted[i][2])
    /\ \A k \in 2..MaxClicks :
        (Len(accepted) >= k /\ Len(published) >= k - 1 /\ published[k - 1][1] \in Errors)
            ~> (Len(published) >= k \/ (stop_thread /\ Len(taken) < k))

(* C10 witness: a request failed in the move step and the next request got *)
(* its outcome.                                                             *)
C10_Witness ==
    /\ Len(published) = 2
    /\ published[1][1] = "move_error"
    /\ ~stop_thread

-----------------------------------------------------------------------------
(* The single-flight restriction relaxed: the go button, once enabled,     *)
(* calls check_and_queue_task (lines 254-286) without the start_progress   *)
(* of go_button_clicked that disables the buttons, so that requests can be *)
(* queued behind one another and be stale when the worker reaches them.    *)
(* This is the call up to its first filesystem call; it goes on with        *)
(* sanity_check_step.                                                       *)
check_and_queue_task ==
    /\ gui = "mainloop"
    /\ tkpc = "idle"
    /\ cfc = "idle"
    /\ button_go # "disabled"
    /\ clicks < MaxClicks
    /\ clicks' = clicks + 1
    /\ tkpc' = "isdir_link"
    /\ in_go' = FALSE
    /\ UNCHANGED <<fs, link_name, dest_name, button_link_name, button_dest_name,
                   button_go, progress_mode, task_queue, result_queue, stop_thread,
                   gui, checks, msg, accepted, workerVars, st_link, re_bound, quit_at, cfc, result, esc_path,
                   esc_result>>

(* start-up of the relaxed program: a directory holding a file, an empty   *)
(* directory, and a third path that is a junction to the first, where the   *)
(* name re is bound, so that a request can go through all its steps         *)
InitRelaxed ==
    /\ Init
    /\ re_bound
    /\ fs["a"] = Dir({ItemOf("a")}, TRUE)
    /\ fs["b"] = Dir({}, TRUE)
    /\ fs["c"] = Junction("a")

NextRelaxed ==
    \/ Next
    \/ check_and_queue_task

RelaxedSpec == InitRelaxed /\ [][NextRelaxed]_vars

-----------------------------------------------------------------------------
(* escape_path_for_cmd (lines 49-50), on paths written as sequences of     *)
(* characters.                                                              *)

(* the characters of the paths: two ordinary ones and the two that cmd.exe *)
(* expands                                                                  *)
Alphabet == {"a", "b", "%", "!"}

Special == {"%", "!"}

Quote == "\""

(* re.sub(r"([^%!]+)", r'"\1"', path): every maximal run of characters    *)
(* other than % and ! is put between double quotes; in_run tells that the  *)
(* character before the rest belongs to a run                              *)
RECURSIVE re_sub(_, _)
re_sub(path, in_run) ==
    IF path = <<>> THEN (IF in_run THEN <<Quote>> ELSE <<>>)
    ELSE IF Head(path) \in Special
    THEN (IF in_run THEN <<Quote>> ELSE <<>>) \o <<Head(path)>>
             \o re_sub(Tail(path), FALSE)
    ELSE (IF in_run THEN <<>> ELSE <<Quote>>) \o <<Head(path)>>
             \o re_sub(Tail(path), TRUE)

(* str.replace(old, new) for a one-character old *)
RECURSIVE str_replace(_, _, _)
str_replace(str, old, new) ==
    IF str = <<>> THEN <<>>
    ELSE (IF Head(str) = old THEN new ELSE <<Head(str)>>)
             \o str_replace(Tail(str), old, new)

(* the escaping with "!" left as it is *)
escape_path_for_cmd_percent_only(path) ==
    str_replace(re_sub(path, FALSE), "%", <<"^", "%">>)

escape_path_for_cmd(path) ==
    str_replace(str_replace(re_sub(path, FALSE), "%", <<"^", "%">>),
                "!", <<"^", "!">>)

(* a call of escape_path_for_cmd, as at lines 80-81.  The module has no    *)
(* "import re": the name is bound only where "from tkinter import *"       *)
(* brings it in, and the call raises NameError where it does not.          *)
escape_call ==
    /\ esc_result = <<"none">>
    /\ esc_result' = IF re_bound THEN escape_path_for_cmd(esc_path)
                                 ELSE <<"NameError">>
    /\ UNCHANGED <<fs, link_name, dest_name, button_link_name, button_dest_name,
                   button_go, progress_mode, task_queue, result_queue, stop_thread,
                   gui, checks, msg, clicks, accepted, quit_at, cfc, result, esc_path, workerVars, st_link, re_bound,
                   tkpc, in_go>>

(* the program as started where the name re is bound, about to call the   *)
(* function on some path                                                    *)
InitEsc ==
    /\ fs = [p \in Paths |-> Absent]
    /\ link_name = ""
    /\ dest_name = ""
    /\ button_link_name = "normal"
    /\ button_dest_name = "normal"
    /\ button_go = "disabled"
    /\ progress_mode = "idle"
    /\ task_queue = <<>>
    /\ result_queue = <<>>
    /\ stop_thread = FALSE
    /\ wpc = "loop"
    /\ wtask = <<"", "">>
    /\ werr = ""
    /\ gui = "mainloop"
    /\ checks = 0
    /\ msg = ""
    /\ clicks = 0
    /\ accepted = <<>>
    /\ taken = <<>>
    /\ published = <<>>
    /\ fs0 = fs
    /\ quit_at = [running |-> FALSE, ntaken |-> 0]
    /\ esc_path \in UNION {[1..n -> Alphabet] : n \in 0..MaxPathLen}
    /\ esc_result = <<"none">>
    /\ tkpc = "idle"
    /\ in_go = FALSE
    /\ cfc = "idle"
    /\ result = <<>>
    /\ mv = "start"
    /\ st_link = ""
    /\ re_bound = TRUE

NextEsc == escape_call

EscSpec == InitEsc /\ [][NextEsc]_vars

-----------------------------------------------------------------------------
(* C11: shutdown requested while nothing is outstanding returns: the join  *)
(* ends and the window is destroyed, and by then the worker's loop has      *)
(* exited.                                                                  *)
C11_IdleShutdownReturns ==
    /\ (gui = "joining" /\ Outstanding = 0) ~> (gui = "destroyed")
    /\ [](gui = "destroyed" => wpc = "exited")

(* C11 witness: quit with no request ever submitted, and on_quit returned. *)
C11_Witness ==
    /\ gui = "destroyed"
    /\ wpc = "exited"
    /\ clicks = 0
    /\ Outstanding = 0

(* the steps of one request follow one another: clear, move, link, then    *)
(* one put, with the except clause entered from any of the three            *)
StepOrder ==
    /\ wpc = "clear" => wpc' \in {"move", "except"}
    /\ wpc = "move" => wpc' \in {"link", "except"}
    /\ wpc = "link" => wpc' \in {"success", "except"}
    /\ wpc \in {"except", "success"} =>
        wpc' = "loop" /\ Len(published') = Len(published) + 1

(* C12: with the stop flag set while a request is being processed, the     *)
(* steps still follow one another up to the put of the outcome; the loop    *)
(* exits, and on_quit returns, only with every dequeued request's outcome   *)
(* published.                                                               *)
C12_StopLetsRunningRequestFinish ==
    /\ [][(wpc \in Running /\ wpc' # wpc) => (StepOrder)]_vars
    /\ [](wpc = "exited" => Len(published) = Len(taken))
    /\ [](gui = "destroyed" => Len(published) = Len(taken))
    /\ (stop_thread /\ wpc \in Running)
           ~> (wpc = "exited" /\ Len(published) = Len(taken))

(* C12 witness: quit was requested while a request was being processed,    *)
(* the request went on to Success, and on_quit has returned.                *)
C12_Witness ==
    /\ quit_at.running
    /\ gui = "destroyed"
    /\ Len(published) = quit_at.ntaken
    /\ published[Len(published)][1] = "True"

(* C13, as stated: once the stop flag is set the worker dequeues nothing   *)
(* more.                                                                    *)
C13_NoDequeueAfterStop ==
    [][stop_thread => Len(taken') = Len(taken)]_vars

(* C13, amended: once the loop test has seen the stop flag the thread ends *)
(* and dequeues nothing more; a worker that was already waiting in get when *)
(* the flag was set can still dequeue one request, no more, and a worker    *)
(* that was processing a request dequeues none.                             *)
C13_NoDequeueAfterFlagSeen ==
    /\ [][stop_thread /\ wpc = "loop" /\ wpc' # wpc => wpc' = "exited"]_vars
    /\ [][wpc = "exited" => wpc' = "exited" /\ taken' = taken /\ fs' = fs]_vars
    /\ [](stop_thread => Len(taken) <= quit_at.ntaken + 1)
    /\ [](stop_thread /\ quit_at.running => Len(taken) = quit_at.ntaken)

(* C13 witness: a request was dequeued after the stop flag was set, and    *)
(* the thread has ended.                                                    *)
C13_Witness ==
    /\ stop_thread
    /\ wpc = "exited"
    /\ Len(taken) = quit_at.ntaken + 1

(* outcomes a poll has taken off the result queue *)
Consumed == Len(published) - Len(result_queue)

(* outcomes a poll has taken off the result queue and told the user of *)
Polled == Consumed - (IF cfc = "got" THEN 1 ELSE 0)

(* C14, as stated: the progress state is never ended but by a poll that    *)
(* has taken an outcome off the result queue.                               *)
C14_ProgressEndsOnlyWithOutcome ==
    [][progress_mode = "indeterminate" /\ progress_mode' # "indeterminate"
        => cfc = "got"]_vars

(* C14, amended: unless quit is requested, each accepted request is        *)
(* followed by a poll that takes its outcome off the result queue, and     *)
(* that poll then ends the progress state and re-enables the buttons; the  *)
(* progress state of an accepted request stays on until then, whatever     *)
(* step is taken, and a poll that finds the queue empty changes nothing    *)
(* but to schedule the next.  The progress state ends without an outcome   *)
(* only when the error box of a rejected click is dismissed, with every    *)
(* accepted request's outcome polled before.                                *)
C14_PollEndsProgressOnlyWithOutcome ==
    /\ \A k \in 1..MaxClicks :
           (Len(accepted) >= k) ~> (Polled >= k \/ stop_thread)
    /\ [][Consumed' # Consumed =>
            /\ Consumed' = Consumed + 1
            /\ cfc = "idle" /\ cfc' = "got"
            /\ result_queue' = Tail(result_queue)
            /\ result' = Head(result_queue)
            /\ <<result'[2], result'[3]>> = accepted[Consumed']]_vars
    /\ [][cfc = "got" /\ cfc' # cfc =>
            /\ Polled' = Polled + 1
            /\ progress_mode = "indeterminate" /\ progress_mode' = "determinate"
            /\ button_go = "disabled" /\ button_go' = "active"
            /\ msg' \in {"completed", "failed"}]_vars
    /\ [][cfc = "empty" /\ cfc' # cfc =>
            /\ checks' = checks + 1
            /\ result_queue' = result_queue
            /\ progress_mode' = progress_mode
            /\ button_go' = button_go]_vars
    /\ [](Polled < Len(accepted) =>
            progress_mode = "indeterminate" /\ button_go = "disabled")
    /\ [][Polled < Len(accepted) /\ cfc # "got"
            => progress_mode' = "indeterminate" /\ button_go' = button_go]_vars
    /\ [][progress_mode = "indeterminate" /\ progress_mode' # "indeterminate" =>
            \/ cfc = "got" /\ Polled' = Polled + 1
            \/ /\ tkpc = "dialog" /\ tkpc' = "idle" /\ in_go
               /\ msg \notin {"ok", "completed", "failed"}
               /\ Polled = Len(accepted)
               /\ Polled' = Polled]_vars

(* C14 witness: a request was accepted and a poll has taken its outcome    *)
(* and ended the progress state; then a click was rejected and the         *)
(* progress state it had started has ended with its error box, no quit     *)
(* requested.                                                               *)
C14_Witness ==
    /\ ~stop_thread
    /\ clicks = 2
    /\ Len(accepted) = 1
    /\ Polled = 1
    /\ tkpc = "idle"
    /\ msg \notin {"ok", "completed", "failed", ""}
    /\ button_go = "active"
    /\ progress_mode = "determinate"

(* C15, as stated: a target that exists and is not empty, as os.path.exists *)
(* and os.listdir see it, makes the clear step fail with the filesystem    *)
(* unchanged.                                                               *)
C15_NonEmptyTargetNeverCleared ==
    [][wpc = "clear" /\ wpc' # wpc /\ TargetNonEmpty(fs, wtask[2])
         => wpc' = "except" /\ fs' = fs]_vars

(* C15, where it fails: the target was a junction to a directory that is   *)
(* not empty when the request was dequeued; the clear step removed the      *)
(* junction and the worker is about to move.                                *)
C15_Witness ==
    /\ wpc = "move"
    /\ fs0[wtask[2]].kind = "junction"
    /\ TargetNonEmpty(fs0, wtask[2])
    /\ fs = rmdir(fs0, wtask[2])

(* the filesystem the clear step leaves when it does not raise *)
AfterClear == IF path_exists(fs0, wtask[2]) THEN rmdir(fs0, wtask[2]) ELSE fs0

(* C16: Success is put only from line 91, which is reached only through   *)
(* the three steps in order, each without error: the target absent, or    *)
(* removed when it lists as empty, then the move, whole, whether made by a *)
(* rename or by copying and deleting, then the link command               *)
(* with zero exit status.  A step that raises goes to the except clause    *)
(* with the later steps not run (no junction is made; the clear and link   *)
(* steps leave the filesystem as it was), and the outcome put for the       *)
(* request is that error, never Success.                                   *)
C16_SuccessOnlyAfterAllSteps ==
    /\ [][Len(published') > Len(published)
              /\ published'[Len(published')][1] = "True" => wpc = "success"]_vars
    /\ [][wpc' = "success" /\ wpc # "success" =>
            /\ wpc = "link"
            /\ ~mklink_raises(fs, wtask[1], wtask[2])
            /\ fs' = mklink(fs, wtask[1], wtask[2])]_vars
    /\ [][wpc' = "link" /\ wpc # "link" =>
            /\ wpc = "move"
            /\ ~move_raises(AfterClear, wtask[1], wtask[2])
            /\ fs' = move(AfterClear, wtask[1], wtask[2])]_vars
    /\ [][wpc' = "move" /\ wpc # "move" =>
            /\ wpc = "clear"
            /\ IF path_exists(fs, wtask[2])
               THEN /\ ~TargetNonEmpty(fs, wtask[2])
                    /\ fs' = rmdir(fs, wtask[2])
               ELSE fs' = fs]_vars
    /\ [][wpc' = "except" /\ wpc # "except" =>
            /\ wpc \in {"clear", "move", "link"}
            /\ wpc # "move" => fs' = fs
            /\ \A p \in Paths : fs'[p].kind = "junction" => fs'[p] = fs[p]
            /\ werr' \in Errors]_vars
    /\ [][wpc = "except" /\ wpc' # wpc =>
            /\ wpc' = "loop"
            /\ published' = Append(published, <<werr, wtask[1], wtask[2]>>)]_vars
    /\ [](wpc = "except" => werr \in Errors /\ "True" \notin Errors)

(* C16 witness: Success was put for a request whose target existed as an   *)
(* empty directory and was removed by the clear step.                       *)
C16_Witness ==
    /\ wpc = "loop"
    /\ Ended("True")
    /\ path_exists(fs0, wtask[2])
    /\ fs[wtask[1]] = Junction(wtask[2])

(* C17: every request put on the task queue has a non-empty source and a   *)
(* non-empty target that differ; the go button is enabled only once both    *)
(* paths are chosen, a call starts only from the enabled button, and a      *)
(* request is queued only at the end of a call whose sanity checks all      *)
(* pass.                                                                    *)
C17_QueuedRequestsWellFormed ==
    /\ [](\A i \in 1..Len(accepted) :
            /\ accepted[i][1] # ""
            /\ accepted[i][2] # ""
            /\ accepted[i][1] # accepted[i][2])
    /\ [](\A i \in 1..Len(task_queue) :
            /\ task_queue[i] = accepted[Len(taken) + i]
            /\ task_queue[i][1] \in Paths /\ task_queue[i][2] \in Paths)
    /\ [](button_go # "disabled" => link_name # "" /\ dest_name # "")
    /\ [](tkpc # "idle" => link_name # "" /\ dest_name # "")
    /\ [][Clicked => button_go # "disabled" /\ tkpc' = "isdir_link"]_vars
    /\ [][task_queue' # task_queue /\ Len(task_queue') > Len(task_queue) =>
            /\ tkpc = "put"
            /\ sanity_checks(fs, link_name, dest_name) = "ok"
            /\ task_queue' = Append(task_queue, <<link_name, dest_name>>)]_vars

(* C17 witness: two different requests have been queued, the second still  *)
(* waiting on the task queue.                                               *)
C17_Witness ==
    /\ Len(accepted) = 2
    /\ accepted[1] # accepted[2]
    /\ Len(task_queue) = 1
    /\ task_queue[1] = accepted[2]

(* s is an initial segment of t *)
IsPrefix(s, t) == Len(s) <= Len(t) /\ SubSeq(t, 1, Len(s)) = s

(* C18: with several requests on the task queue, the worker dequeues them  *)
(* in the order they were queued, starts one only when the outcome of the   *)
(* one before has been put, and the outcomes are put, and are read by the   *)
(* polls, in the order of their requests.                                   *)
C18_ProcessedInSubmissionOrder ==
    /\ [](IsPrefix(taken, accepted))
    /\ [](task_queue = SubSeq(accepted, Len(taken) + 1, Len(accepted)))
    /\ [](Len(published) <= Len(taken) /\ Len(taken) <= Len(published) + 1)
    /\ [](wpc \in Running <=> Len(taken) = Len(published) + 1)
    /\ [](\A i \in 1..Len(published) : <<published[i][2], published[i][3]>> = accepted[i])
    /\ [](result_queue = SubSeq(published, Consumed + 1, Len(published)))
    /\ [][Len(taken') > Len(taken) =>
            /\ Len(published) = Len(taken)
            /\ taken' = Append(taken, accepted[Len(taken) + 1])]_vars

(* C18 witness: two different requests were queued by the relaxed call and *)
(* both outcomes are on the result queue, in the order of the requests.     *)
C18_Witness ==
    /\ Len(accepted) = 2
    /\ accepted[1] # accepted[2]
    /\ Len(result_queue) = 2
    /\ <<result_queue[1][2], result_queue[1][3]>> = accepted[1]
    /\ <<result_queue[2][2], result_queue[2][3]>> = accepted[2]
    /\ progress_mode = "idle"

(* every % and ! of str prefixed by ^ *)
CaretPrefixed(str) ==
    str_replace(str_replace(str, "%", <<"^", "%">>), "!", <<"^", "!">>)

(* position i of str lies between an opening quote and its closing quote *)
InsideQuotes(str, i) ==
    Cardinality({j \in 1..(i - 1) : str[j] = Quote}) % 2 = 1

NotQuoteOrCaret(c) == c # Quote /\ c # "^"

(* C19, as stated: the call returns the whole path in one pair of quotes,  *)
(* with every % and ! prefixed by ^.                                        *)
C19_WholePathInOneQuotePair ==
    esc_result # <<"none">> =>
        esc_result = <<Quote>> \o CaretPrefixed(esc_path) \o <<Quote>>

(* C19, amended: the call returns the path with each maximal run of       *)
(* characters other than % and ! in a quote pair of its own and each % and  *)
(* ! outside the quotes, prefixed by ^: the quotes are balanced, no pair is *)
(* empty or adjacent to another, and removing quotes and carets gives back  *)
(* the path.  A non-empty path without % or ! comes back in one pair of     *)
(* quotes, and the empty path comes back empty, without quotes.             *)
C19_EachRunQuotedSpecialsCareted ==
    esc_result # <<"none">> =>
        /\ SelectSeq(esc_result, NotQuoteOrCaret) = esc_path
        /\ Cardinality({j \in 1..Len(esc_result) : esc_result[j] = Quote}) % 2 = 0
        /\ \A i \in 1..Len(esc_result) :
             /\ esc_result[i] \in Special =>
                  /\ ~InsideQuotes(esc_result, i)
                  /\ i > 1 /\ esc_result[i - 1] = "^"
             /\ esc_result[i] = "^" =>
                  /\ ~InsideQuotes(esc_result, i)
                  /\ i < Len(esc_result) /\ esc_result[i + 1] \in Special
             /\ esc_result[i] \notin Special \cup {"^", Quote} =>
                  InsideQuotes(esc_result, i)
             /\ esc_result[i] = Quote /\ i < Len(esc_result) =>
                  esc_result[i + 1] # Quote
        /\ (esc_path # <<>> /\ \A i \in 1..Len(esc_path) : esc_path[i] \notin Special)
             => esc_result = <<Quote>> \o esc_path \o <<Quote>>
        /\ esc_path = <<>> => esc_result = <<>>

(* C19 witness: the call on a%b returned "a"^%"b". *)
C19_Witness ==
    /\ esc_path = <<"a", "%", "b">>
    /\ esc_result = <<Quote, "a", Quote, "^", "%", Quote, "b", Quote>>

(* completion checks pending in after(), or about to be scheduled by the   *)
(* handler the Tk thread is in: the call that has put its task (line 282)  *)
(* and not yet reached line 285, the callback that found the queue empty   *)
(* (line 229) and not yet reached line 233                                  *)
Due == checks + (IF tkpc = "schedule" THEN 1 ELSE 0) + (IF cfc = "empty" THEN 1 ELSE 0)

(* C20: one completion check is pending, or running and about to replace   *)
(* itself, exactly while an accepted request has its outcome not yet taken *)
(* by a poll, and none otherwise; a check is scheduled only by the call    *)
(* that accepted a request or by a poll that found the queue empty, one at *)
(* a time, and the poll that takes an outcome schedules none.              *)
C20_OneCheckWhileOutcomeUnconsumed ==
    /\ [](Due = Len(accepted) - Consumed)
    /\ [](Due \in {0, 1})
    /\ [](tkpc # "schedule" /\ cfc # "empty" =>
            (checks = 1 <=> Consumed < Len(accepted)))
    /\ [][checks' > checks =>
            /\ checks' = checks + 1
            /\ \/ tkpc = "schedule" /\ tkpc' = "idle"
               \/ cfc = "empty" /\ cfc' = "idle"]_vars
    /\ [][checks' < checks =>
            /\ checks' = checks - 1
            /\ cfc = "idle" /\ cfc' \in {"empty", "got"}]_vars
    /\ [][cfc = "got" /\ cfc' # cfc => checks' = checks /\ Due' = Due]_vars
    /\ [][Consumed' # Consumed => Due' = Due - 1]_vars
    /\ [][Len(accepted') # Len(accepted) => Due' = Due + 1]_vars

(* C20 witness: the first request's outcome was taken by a poll, a second  *)
(* request is accepted and not yet answered, and one check is pending.     *)
C20_Witness ==
    /\ Len(accepted) = 2
    /\ Consumed = 1
    /\ Len(result_queue) = 0
    /\ checks = 1
    /\ cfc = "idle"

====
